---- MODULE Spec2Model ----
(***************************************************************************)
(* Key pools (utils/api_keys.py) and the retry loops that consume them:   *)
(* plan_website_components, generate_component and combine_components.    *)
(*                                                                         *)
(* One generation flow is followed step by step; every other concurrent    *)
(* request is visible to it only through the shared key managers, so the   *)
(* rest of the world is the rotations that the other routes perform, which *)
(* may fire between any two steps of the flow.                             *)
(*                                                                         *)
(* Credentials are opaque: a pool of size n holds the n distinct           *)
(* credentials <<provider, 1>> .. <<provider, n>>, numbered by the         *)
(* position random.shuffle left them in.                                   *)
(***************************************************************************)
EXTENDS Integers, Sequences, FiniteSets, TLC

\* largest number of configured keys per provider that is explored
MaxKeys == 2

\* largest number of image and markup calls of one followed request that
\* the providers let fail
MaxFailures == 2

\* the value of Python's None for an Optional[str] key
None == << "None" >>

\* marks a key that is missing from a dict
Absent == "<absent>"

VARIABLES
    openrouter_manager,      \* api_keys.openrouter_key_manager: [keys, current_key_index]
    openai_manager,          \* api_keys.openai_key_manager:     [keys, current_key_index]
    _key_manager,            \* api_keys._key_manager: its own openai and openrouter managers
    pc,                      \* "idle" | "loop" | "done": position of the flow in a logical call
    stage,                   \* "none" | "planner" | "image" | "component" | "combiner"
    form_data,               \* the business profile of the current planner call
    component_info,          \* the component of the current image call
    openrouter_key,          \* the local variable openrouter_key of the running function
    openrouter_key_for_text, \* create_website's local, read once per request
    route_openai_client,     \* the credential of the OpenAI client create_website built
    openai_client,           \* the credential of generate_image_for_component's openai_client
    max_retries,             \* the local variable max_retries
    attempt,                 \* the loop variable attempt
    use_bootstrap_docs,      \* generate_component's local flag
    result,                  \* how the logical call ended
    plan_data,               \* the planner's return value
    html_code,               \* combine_components' local html_code: the markers of the document
    \* ---- observation of the run (not program state) ----
    calls,                   \* provider requests sent by the current logical call
    used,                    \* credentials presented by the current logical call, in order
    first,                   \* class of the first provider outcome of the call
    allRL,                   \* every outcome so far was a rate-limit failure
    all429,                  \* every outcome so far was an HTTP 429 answer
    allFail,                 \* every outcome so far was a failure of the provider call
    rot,                     \* rotations performed by the current logical call
    last_rotate,             \* the rotate_key() call of the latest step, if it made one
    last_get,                \* the get_key() call of the latest step, if it made one
    prev_fallback,           \* the latest returned planner call whose provider calls all failed
    \* ---- one create_website request followed from start to response ----
    phase,                   \* position of the request in create_website / generate_all_components
    all_components_from_plan,\* generate_all_components' sorted list of descriptors
    comp_idx,                \* position of the main loop in that list (1-based)
    components,              \* the dict components: its keys in insertion order
    generated_image_urls,    \* the list generated_image_urls
    image_urls,              \* the argument image_urls of the running generate_component call
    returned,                \* what generate_all_components returned to create_website
    generated_code,          \* the markers of the document the combiner stage holds
    response,                \* what create_website answered
    \* ---- observation of the request (not program state) ----
    img_slots,               \* slot of the descriptor each obtained image reference was for
    attempted,               \* names whose markup generation was started in the main loop
    failed,                  \* names whose markup generation failed in the main loop
    regenerated,             \* names for which a regeneration call was started
    img_failed               \* names whose image call made attempts and all of them failed

vars == << openrouter_manager, openai_manager, _key_manager, pc, stage, form_data,
           component_info, openrouter_key, openrouter_key_for_text, route_openai_client,
           openai_client, max_retries, attempt, use_bootstrap_docs, result, plan_data,
           html_code, calls, used, first, allRL, all429, allFail, rot, last_rotate, last_get, prev_fallback,
           phase, all_components_from_plan, comp_idx, components, generated_image_urls,
           image_urls, returned, generated_code, response, img_slots, attempted, failed,
           regenerated, img_failed >>

\* the variables that follow one create_website request
pipe_vars == << phase, all_components_from_plan, comp_idx, components, generated_image_urls,
                image_urls, returned, generated_code, response, img_slots, attempted,
                failed, regenerated, img_failed >>

-----------------------------------------------------------------------------
(* OpenRouterKeyManager / OpenAIKeyManager *)

\* __init__ + _load_keys: n deduplicated keys of one provider, cursor 0
NewManager(provider, n) ==
    [keys |-> [i \in 1..n |-> << provider, i >>], current_key_index |-> 0]

\* get_key
get_key(m) ==
    IF Len(m.keys) = 0 THEN None ELSE m.keys[m.current_key_index + 1]

\* get_all_keys
get_all_keys(m) == m.keys

\* has_multiple_keys
has_multiple_keys(m) == Len(m.keys) > 1

\* rotate_key without the modulo: the cursor runs off the end of the list
rotate_key_NoWrap(m) ==
    IF Len(m.keys) <= 1
    THEN [m |-> m, ret |-> FALSE]
    ELSE [m |-> [m EXCEPT !.current_key_index = m.current_key_index + 1], ret |-> TRUE]

\* rotate_key without the single-key guard
rotate_key_NoGuard(m) ==
    IF Len(m.keys) = 0
    THEN [m |-> m, ret |-> FALSE]
    ELSE [m   |-> [m EXCEPT !.current_key_index = (m.current_key_index + 1) % Len(m.keys)],
          ret |-> TRUE]

\* rotate_key: the manager afterwards and the value returned
rotate_key(m) ==
    IF Len(m.keys) <= 1
    THEN [m |-> m, ret |-> FALSE]
    ELSE [m   |-> [m EXCEPT !.current_key_index = (m.current_key_index + 1) % Len(m.keys)],
          ret |-> TRUE]

\* max_retries with one attempt more than there are keys
MaxRetries_PlusOne(all_keys) == Len(all_keys) + 1

\* max_retries = len(all_keys) if all_keys else 1
MaxRetries(all_keys) == IF Len(all_keys) > 0 THEN Len(all_keys) ELSE 1

\* what a rotate_key() call on pool p looks like to an observer
RotateObs(p, m) ==
    [pool |-> p, size |-> Len(m.keys), before |-> m.current_key_index,
     after |-> rotate_key(m).m.current_key_index, ret |-> rotate_key(m).ret]

\* what a get_key() call on pool p looks like to an observer
GetObs(p, m) ==
    [pool |-> p, size |-> Len(m.keys), index |-> m.current_key_index,
     keys |-> m.keys, value |-> get_key(m)]

\* the latest step made no such call
NoObs == [pool |-> "none"]

-----------------------------------------------------------------------------
(* What the text-generation provider can answer to one request *)

\* a component descriptor of a plan
Desc(n, o, img, prompt) ==
    [name |-> n, order |-> o, needs_image |-> img, image_prompt |-> prompt]

NoPrompt == << >>

\* no image call is running
NoComponent == Desc("none", 0, FALSE, NoPrompt)

\* a plan body that follows the planning prompt
GoodComponents ==
    << Desc("Navigation", 1, FALSE, NoPrompt),
       Desc("Hero", 2, TRUE, << "provider hero" >>),
       Desc("Menu", 3, TRUE, << "provider menu" >>),
       Desc("About", 4, FALSE, NoPrompt),
       Desc("Gallery", 5, FALSE, NoPrompt),
       Desc("Reviews", 6, FALSE, NoPrompt),
       Desc("Contact", 7, FALSE, NoPrompt),
       Desc("Footer", 8, FALSE, NoPrompt) >>

\* eight entries, none of them a fixed role, all in slot 3
NoRolesComponents == [i \in 1..8 |-> Desc("Gallery", 3, FALSE, NoPrompt)]

\* the good plan with Hero.needs_image = false
HeroNoImageComponents ==
    [GoodComponents EXCEPT ![2] = Desc("Hero", 2, FALSE, NoPrompt)]

\* the good plan with Footer.needs_image = true
FooterImageComponents ==
    [GoodComponents EXCEPT ![8] = Desc("Footer", 8, TRUE, << "provider footer" >>)]

\* the good plan with Navigation and Hero in each other's slot
SwappedComponents ==
    [GoodComponents EXCEPT ![1] = Desc("Navigation", 2, FALSE, NoPrompt),
                           ![2] = Desc("Hero", 1, TRUE, << "provider hero" >>)]

\* the good plan without its last entry
ShortComponents == SubSeq(GoodComponents, 1, 7)

\* the content of an answer: text, which json.loads may or may not accept,
\* and for accepted text whether it has the key all_components and its value
Body(j, h, cs) == [json |-> j, has_all_components |-> h, all_components |-> cs]

\* text that is not JSON (markup, prose)
TextBody == Body(FALSE, FALSE, << >>)

\* message contents the planner may receive
PlanBodies ==
    { TextBody,
      Body(TRUE, FALSE, << >>),
      Body(TRUE, TRUE, GoodComponents),
      Body(TRUE, TRUE, NoRolesComponents),
      Body(TRUE, TRUE, HeroNoImageComponents),
      Body(TRUE, TRUE, FooterImageComponents),
      Body(TRUE, TRUE, SwappedComponents),
      Body(TRUE, TRUE, ShortComponents) }

\* message content of a component or combination answer
HtmlBodies == { TextBody }

\* the body of an outcome that carries no content
NoBody == Body(FALSE, FALSE, << >>)

\* an outcome of requests.post + raise_for_status + response.json():
\*   HTTPError  raise_for_status raised, with the response's status code
\*   Exception  any other exception, with the marker its text carries
\*   empty      a 2xx answer without choices / message / content
\*   content    a 2xx answer with message content
Outcome(k, st, mk, b) == [kind |-> k, status |-> st, marker |-> mk, body |-> b]

ErrorOutcomes ==
    { Outcome("HTTPError", 429, "none", NoBody),
      Outcome("HTTPError", 500, "none", NoBody),
      Outcome("Exception", 0, "rate limit exceeded", NoBody),
      Outcome("Exception", 0, "permission", NoBody),
      Outcome("Exception", 0, "none", NoBody),
      Outcome("empty", 200, "none", NoBody) }

PlannerOutcomes ==
    ErrorOutcomes \cup { Outcome("content", 200, "none", b) : b \in PlanBodies }

HtmlOutcomes ==
    ErrorOutcomes \cup { Outcome("content", 200, "none", b) : b \in HtmlBodies }

\* A document is known by the substrings the code looks for in it:
\*   starts_doctype  html_code.startswith('<!DOCTYPE')
\*   doctype         '<!DOCTYPE' in html_code
\*   doctype_ci      '<!doctype' in html_code.lower()
\*   html_ci         '<html' in html_code.lower()
\*   head_ci         '<head' in html_code.lower()
\*   body_ci         '<body' in html_code.lower()
\*   head_open, head_close, body_open, body_close
\*                   '<head>', '</head>', '<body>', '</body>' in html_code
\*   bootstrap_cdn   'bootstrap' and 'cdn.jsdelivr.net/npm/bootstrap' in html_code.lower()
\*   css_framework   the document references a CSS framework stylesheet
\*   long            len(html_code.strip()) >= 100
\*   components_found  every component's name, or the piece comp_code[50:200]
\*                   of its markup, occurs in html_code.lower()
Doc(sd, dt, dtci, h, hd, b, ho, hc, bo, bc, bs, css, lg, cf) ==
    [starts_doctype |-> sd, doctype |-> dt, doctype_ci |-> dtci, html_ci |-> h,
     head_ci |-> hd, body_ci |-> b, head_open |-> ho, head_close |-> hc,
     body_open |-> bo, body_close |-> bc, bootstrap_cdn |-> bs, css_framework |-> css,
     long |-> lg, components_found |-> cf]

\* no document
NoDoc ==
    Doc(FALSE, FALSE, FALSE, FALSE, FALSE, FALSE, FALSE, FALSE, FALSE, FALSE, FALSE, FALSE,
        FALSE, FALSE)

\* documents the merge call may answer with
HtmlDocs ==
    { \* <!DOCTYPE html><html><head>..bootstrap css..</head><body>..</body></html>
      Doc(TRUE, TRUE, TRUE, TRUE, TRUE, TRUE, TRUE, TRUE, TRUE, TRUE, TRUE, TRUE, TRUE, TRUE),
      \* the same without any Bootstrap reference
      Doc(TRUE, TRUE, TRUE, TRUE, TRUE, TRUE, TRUE, TRUE, TRUE, TRUE, FALSE, FALSE, TRUE, TRUE),
      \* <html><body>..</body></html>: no declaration, no head, no Bootstrap
      Doc(FALSE, FALSE, FALSE, TRUE, FALSE, TRUE, FALSE, FALSE, TRUE, TRUE, FALSE, FALSE, TRUE, TRUE),
      \* <!doctype html><HTML><HEAD>..</HEAD><BODY>..</BODY></HTML>, no Bootstrap
      Doc(FALSE, FALSE, TRUE, TRUE, TRUE, TRUE, FALSE, FALSE, FALSE, FALSE, FALSE, FALSE, TRUE, TRUE),
      \* prose, then the full document
      Doc(FALSE, TRUE, TRUE, TRUE, TRUE, TRUE, TRUE, TRUE, TRUE, TRUE, TRUE, TRUE, TRUE, TRUE),
      \* <section>..</section> fragments only
      Doc(FALSE, FALSE, FALSE, FALSE, FALSE, FALSE, FALSE, FALSE, FALSE, FALSE, FALSE, FALSE,
          TRUE, TRUE),
      \* the full document with one component's section left out
      Doc(TRUE, TRUE, TRUE, TRUE, TRUE, TRUE, TRUE, TRUE, TRUE, TRUE, TRUE, TRUE, TRUE, FALSE),
      \* <html><body>ok</body></html>
      Doc(FALSE, FALSE, FALSE, TRUE, FALSE, TRUE, FALSE, FALSE, TRUE, TRUE, FALSE, FALSE,
          FALSE, FALSE) }

\* message content of a combination answer
DocBody(d) ==
    [json |-> FALSE, has_all_components |-> FALSE, all_components |-> << >>, doc |-> d]

CombinerOutcomes ==
    ErrorOutcomes \cup { Outcome("content", 200, "none", DocBody(d)) : d \in HtmlDocs }

\* lines 125-130 without the else branch that puts the declaration in front
EnsureDoctype_NoPrepend(d) ==
    IF d.starts_doctype THEN d
    ELSE IF d.doctype THEN [d EXCEPT !.starts_doctype = TRUE]
    ELSE d

\* lines 125-130: cut what precedes '<!DOCTYPE', or put the declaration in front
EnsureDoctype(d) ==
    IF d.starts_doctype THEN d
    ELSE IF d.doctype THEN [d EXCEPT !.starts_doctype = TRUE]
    ELSE [d EXCEPT !.starts_doctype = TRUE, !.doctype = TRUE, !.doctype_ci = TRUE]

\* OpenRouterKeyManager.is_rate_limit_error: '429 client error' or
\* 'rate limit exceeded' in the text, or response.status_code == 429
is_rate_limit_error_openrouter(e) ==
    \/ e.kind = "HTTPError" /\ e.status = 429
    \/ e.marker = "rate limit exceeded"

\* _is_permission_error: 'permission' or '403' in the text
_is_permission_error(e) ==
    \/ e.marker = "permission"
    \/ e.kind = "HTTPError" /\ e.status = 403

-----------------------------------------------------------------------------
(* component_planner.py *)

\* business profiles; a field the form did not send is Absent
Profiles ==
    { [businessCategory |-> "Food", businessSubCategory |-> "Bakery", themeColor |-> "#112233"],
      [businessCategory |-> "Legal", businessSubCategory |-> Absent, themeColor |-> Absent] }

\* no planner call is running
NoProfile ==
    [businessCategory |-> Absent, businessSubCategory |-> Absent, themeColor |-> Absent]

\* dict.get(key, default)
Get(d, key, default) == IF d[key] = Absent THEN default ELSE d[key]

\* [c for c in all_components if c.get('order', 0) in [3, 4, 5, 6]]
DynamicOf(all) == SelectSeq(all, LAMBDA c : c.order \in {3, 4, 5, 6})

\* the loop that builds image_plan: the last component that needs an image
\* and is named Hero sets image_plan['hero_image']
ImagePlanOf(all) ==
    LET heroes == SelectSeq(all, LAMBDA c : c.needs_image /\ c.name = "Hero")
    IN  IF heroes = << >> THEN << >>
        ELSE << [key |-> "hero_image", prompt |-> heroes[Len(heroes)].image_prompt] >>

\* the dict returned on success: the provider's plan_data plus
\* dynamic_components and image_plan
BuildPlan(body) ==
    [all_components     |-> body.all_components,
     dynamic_components |-> DynamicOf(body.all_components),
     image_plan         |-> ImagePlanOf(body.all_components),
     component_order    |-> << >>,
     notes              |-> << >>]

\* the raise statements of the try block: what reaches the except clauses
\* of the retry loop for outcome r, or "none" when the plan is returned
PlannerRaised(r) ==
    IF r.kind \in {"HTTPError", "Exception"} THEN r
    ELSE IF r.kind = "empty" THEN Outcome("Exception", 0, "none", NoBody)
    ELSE IF ~r.body.json THEN Outcome("Exception", 0, "none", NoBody)
    ELSE IF ~r.body.has_all_components THEN Outcome("Exception", 0, "none", NoBody)
    ELSE IF Len(r.body.all_components) # 8 THEN Outcome("Exception", 0, "none", NoBody)
    ELSE Outcome("none", 0, "none", NoBody)

\* the HTTPError handler without the rotate-and-continue branch
planner_on_HTTPError_NoRetry(e, att, maxr, m) ==
    [next |-> "raise", rotate |-> FALSE]

\* except requests.exceptions.HTTPError
planner_on_HTTPError(e, att, maxr, m) ==
    IF is_rate_limit_error_openrouter(e) /\ has_multiple_keys(m) /\ rotate_key(m).ret
    THEN [next |-> "continue", rotate |-> TRUE]
    ELSE [next |-> "raise", rotate |-> FALSE]

\* except Exception
planner_on_Exception(e, att, maxr, m) ==
    IF is_rate_limit_error_openrouter(e) /\ has_multiple_keys(m) /\ att < maxr - 1
    THEN [next |-> "continue", rotate |-> TRUE]
    ELSE IF att < maxr - 1
    THEN [next |-> "continue", rotate |-> has_multiple_keys(m)]
    ELSE [next |-> "raise", rotate |-> FALSE]

\* the all_components list of get_fallback_plan
FallbackComponents(fd) ==
    LET business_category     == Get(fd, "businessCategory", "Business")
        business_sub_category == Get(fd, "businessSubCategory", "Services")
        theme_color           == Get(fd, "themeColor", "#4f46e5")
    IN  << Desc("Navigation", 1, FALSE, NoPrompt),
           Desc("Hero", 2, TRUE,
                << "hero banner", business_category, business_sub_category, theme_color >>),
           Desc("Services", 3, TRUE,
                << "business image", business_category, business_sub_category, theme_color >>),
           Desc("About", 4, FALSE, NoPrompt),
           Desc("Features", 5, TRUE,
                << "feature image", business_category, business_sub_category, theme_color >>),
           Desc("Testimonials", 6, FALSE, NoPrompt),
           Desc("Contact", 7, FALSE, NoPrompt),
           Desc("Footer", 8, FALSE, NoPrompt) >>

\* a fallback plan whose list stops before the Footer entry
get_fallback_plan_NoFooter(fd) ==
    [all_components     |-> SubSeq(FallbackComponents(fd), 1, 7),
     dynamic_components |-> DynamicOf(FallbackComponents(fd)),
     image_plan         |-> << [key |-> "hero_image",
                                prompt |-> << "hero image",
                                              Get(fd, "businessCategory", "Business"),
                                              Get(fd, "businessSubCategory", "Services") >>] >>,
     component_order    |-> << 1, 2, 3, 4, 5, 6, 7, 8 >>,
     notes              |-> << "Fallback plan", Get(fd, "businessCategory", "Business"),
                               Get(fd, "businessSubCategory", "Services") >>]

\* get_fallback_plan
get_fallback_plan(fd) ==
    [all_components     |-> FallbackComponents(fd),
     dynamic_components |-> DynamicOf(FallbackComponents(fd)),
     image_plan         |-> << [key |-> "hero_image",
                                prompt |-> << "hero image",
                                              Get(fd, "businessCategory", "Business"),
                                              Get(fd, "businessSubCategory", "Services") >>] >>,
     component_order    |-> << 1, 2, 3, 4, 5, 6, 7, 8 >>,
     notes              |-> << "Fallback plan", Get(fd, "businessCategory", "Business"),
                               Get(fd, "businessSubCategory", "Services") >>]

\* no plan yet
NoPlan ==
    [all_components |-> << >>, dynamic_components |-> << >>, image_plan |-> << >>,
     component_order |-> << >>, notes |-> << >>]

\* the provider call itself failed (error status, exception or empty answer)
CallFailed(r) == r.kind \in {"HTTPError", "Exception", "empty", "nodata"}

-----------------------------------------------------------------------------
(* bookkeeping shared by the actions *)

\* class of a provider outcome r, given what reached the except clauses (e)
\* and whether the pool's classifier calls r a rate limit (rl)
ClassOf(r, e, rl) ==
    IF e.kind = "none" THEN "content"
    ELSE IF CallFailed(r) /\ rl THEN "rate_limit"
    ELSE IF r.kind = "HTTPError" THEN "http_error"
    ELSE IF r.kind = "Exception" THEN "exception"
    ELSE IF r.kind = "empty" THEN "empty"
    ELSE "rejected"

\* the locals of a logical call before it starts and after it has returned
NoCall ==
    /\ stage' = "none"
    /\ openrouter_key' = None
    /\ max_retries' = 1
    /\ attempt' = 0
    /\ use_bootstrap_docs' = FALSE
    /\ openai_client' = None
    /\ result' = "none"
    /\ plan_data' = NoPlan
    /\ html_code' = NoDoc
    /\ calls' = 0
    /\ used' = << >>
    /\ first' = "none"
    /\ allRL' = TRUE
    /\ all429' = TRUE
    /\ allFail' = TRUE
    /\ rot' = 0

\* a logical call begins: reset what is observed about it
BeginObs ==
    /\ calls' = 0
    /\ used' = << >>
    /\ first' = "none"
    /\ allRL' = TRUE
    /\ all429' = TRUE
    /\ allFail' = TRUE
    /\ rot' = 0

\* the attempts of a logical call are observed when calls are followed one
\* at a time, and for the planner call and the image calls of a followed
\* request
Observing == phase = "free" \/ stage \in {"planner", "image"}

\* one provider request was sent with credential k and ended as r, e being
\* what reached the except clauses and rl the classifier's verdict on r
CallObs(k, r, e, rl) ==
    IF Observing
    THEN /\ calls' = calls + 1
         /\ used' = Append(used, k)
         /\ first' = IF calls = 0 THEN ClassOf(r, e, rl) ELSE first
         /\ allRL' = (allRL /\ CallFailed(r) /\ rl)
         /\ all429' = (all429 /\ r.kind = "HTTPError" /\ r.status = 429)
         /\ allFail' = (allFail /\ CallFailed(r))
    ELSE UNCHANGED << calls, used, first, allRL, all429, allFail >>

\* the pool rotated after every attempt, whatever the decision d
RotateOpenRouterIf_Always(d) ==
    /\ openrouter_manager' = rotate_key(openrouter_manager).m
    /\ last_rotate' =
          IF Observing THEN RotateObs("openrouter", openrouter_manager) ELSE NoObs
    /\ rot' = IF Observing THEN rot + 1 ELSE rot

\* the handler's decision d applied to the openrouter pool
RotateOpenRouterIf(d) ==
    /\ openrouter_manager' =
          IF d.rotate THEN rotate_key(openrouter_manager).m ELSE openrouter_manager
    /\ last_rotate' =
          IF d.rotate /\ Observing THEN RotateObs("openrouter", openrouter_manager)
          ELSE NoObs
    /\ rot' = IF d.rotate /\ Observing THEN rot + 1 ELSE rot

-----------------------------------------------------------------------------
(* plan_website_components *)

\* lines 223-239: read the key, size the loop
StartPlanner(fd) ==
    /\ pc = "idle"
    /\ UNCHANGED html_code
    /\ UNCHANGED pipe_vars
    /\ stage' = "planner"
    /\ form_data' = fd
    /\ UNCHANGED component_info
    /\ openrouter_key' = get_key(openrouter_manager)
    /\ last_get' = GetObs("openrouter", openrouter_manager)
    /\ BeginObs
    /\ attempt' = 0
    /\ IF get_key(openrouter_manager) = None
       THEN \* raise Exception("OPENROUTER_API_KEY not configured") -> fallback
            /\ pc' = "done"
            /\ result' = "fallback"
            /\ plan_data' = get_fallback_plan(fd)
            /\ UNCHANGED max_retries
       ELSE /\ pc' = "loop"
            /\ result' = "running"
            /\ plan_data' = NoPlan
            /\ max_retries' =
                 MaxRetries(get_all_keys(_key_manager.openrouter_manager))
    /\ last_rotate' = NoObs
    /\ UNCHANGED << openrouter_manager, openai_manager, _key_manager,
                    openrouter_key_for_text, route_openai_client, openai_client,
                    use_bootstrap_docs, prev_fallback >>

\* one iteration of the retry loop, and what follows it when the loop ends
PlannerAttempt(r) ==
    /\ pc = "loop"
    /\ UNCHANGED html_code
    /\ UNCHANGED pipe_vars
    /\ stage = "planner"
    /\ LET e == PlannerRaised(r)
           d == IF e.kind = "none" THEN [next |-> "return", rotate |-> FALSE]
                ELSE IF e.kind = "HTTPError"
                THEN planner_on_HTTPError(e, attempt, max_retries, openrouter_manager)
                ELSE planner_on_Exception(e, attempt, max_retries, openrouter_manager)
       IN  /\ CallObs(openrouter_key, r, e, is_rate_limit_error_openrouter(r))
           /\ RotateOpenRouterIf(d)
           /\ IF d.next = "return"
              THEN /\ pc' = "done"
                   /\ result' = "plan"
                   /\ plan_data' = BuildPlan(r.body)
                   /\ UNCHANGED attempt
              ELSE IF d.next = "raise" \/ attempt + 1 >= max_retries
              THEN \* the raise of the handler, or "All planning attempts failed"
                   /\ pc' = "done"
                   /\ result' = "fallback"
                   /\ plan_data' = get_fallback_plan(form_data)
                   /\ UNCHANGED attempt
              ELSE /\ attempt' = attempt + 1
                   /\ UNCHANGED << pc, result, plan_data >>
    /\ last_get' = NoObs
    /\ UNCHANGED << openai_manager, _key_manager, stage, form_data, component_info,
                    openrouter_key, openrouter_key_for_text, route_openai_client,
                    openai_client, max_retries, use_bootstrap_docs, prev_fallback >>

-----------------------------------------------------------------------------
(* create_website: the keys read before generate_all_components *)

\* routes/generate_code.py lines 209-217: both keys are required; the
\* openrouter key read here is the one every generate_component call gets
RouteGetKeys ==
    /\ pc = "idle"
    /\ UNCHANGED html_code
    /\ UNCHANGED pipe_vars
    /\ openrouter_key_for_text' =
          IF get_key(openai_manager) = None THEN None ELSE get_key(openrouter_manager)
    /\ route_openai_client' = get_key(openai_manager)
    /\ last_get' = IF get_key(openai_manager) = None
                   THEN GetObs("openai", openai_manager)
                   ELSE GetObs("openrouter", openrouter_manager)
    /\ last_rotate' = NoObs
    /\ UNCHANGED << openrouter_manager, openai_manager, _key_manager, pc, stage, form_data,
                    component_info, openrouter_key, openai_client, max_retries, attempt,
                    use_bootstrap_docs, result, plan_data, calls, used, first, allRL, all429,
                    allFail, rot, prev_fallback >>

-----------------------------------------------------------------------------
(* generate_image_for_component *)

\* an outcome of images.generate + the download of the returned URL:
\*   Exception  either call raised; status is the HTTP status the error
\*              carries (0 if none), marker what its text carries
\*   nodata     a response without data or without a URL
\*   image      the image was generated and saved
ImageOutcomes ==
    { Outcome("Exception", 429, "none", NoBody),
      Outcome("Exception", 500, "none", NoBody),
      Outcome("Exception", 0, "quota", NoBody),
      Outcome("Exception", 0, "none", NoBody),
      Outcome("nodata", 200, "none", NoBody),
      Outcome("image", 200, "none", NoBody) }

\* OpenAIKeyManager.is_rate_limit_error: '429' in the text, a status of
\* 429, or 'rate limit' / 'quota' in the text or the args
is_rate_limit_error_openai(e) ==
    \/ e.status = 429
    \/ e.marker \in {"rate limit exceeded", "quota"}

\* the components an image may be requested for: name and image_prompt
ImageComponents ==
    { Desc("Hero", 2, TRUE, << "hero prompt" >>),
      Desc("Menu", 3, TRUE, << "menu prompt" >>),
      Desc("Gallery", 5, TRUE, NoPrompt) }

\* except Exception of the image loop
image_on_Exception(e, att, maxr, m) ==
    IF is_rate_limit_error_openai(e) /\ has_multiple_keys(m) /\ att < maxr - 1
    THEN [next |-> "continue", rotate |-> TRUE]
    ELSE IF has_multiple_keys(m) /\ att < maxr - 1
    THEN [next |-> "continue", rotate |-> TRUE]
    ELSE [next |-> "break", rotate |-> FALSE]

\* lines 126-132 with one path for every role
ImageFallback_Shared(comp_name) == "additional_fallback_path"

\* lines 126-132: the fallback path returned when no attempt succeeded
ImageFallback(comp_name) ==
    IF comp_name = "Hero" THEN "hero_fallback_path" ELSE "additional_fallback_path"

\* lines 42-66: no prompt -> None; otherwise size the loop.  The client is
\* the one create_website built from get_openai_key()
StartImage(comp) ==
    /\ pc = "idle"
    /\ UNCHANGED html_code
    /\ UNCHANGED pipe_vars
    /\ openrouter_key_for_text # None
    /\ stage' = "image"
    /\ component_info' = comp
    /\ BeginObs
    /\ attempt' = 0
    /\ plan_data' = NoPlan
    /\ IF comp.image_prompt = NoPrompt
       THEN /\ pc' = "done"
            /\ result' = "none"
            /\ UNCHANGED max_retries
       ELSE /\ pc' = "loop"
            /\ result' = "running"
            /\ max_retries' =
                 MaxRetries(get_all_keys(_key_manager.openai_manager))
    /\ last_rotate' = NoObs
    /\ last_get' = NoObs
    /\ openai_client' = route_openai_client
    /\ UNCHANGED << openrouter_manager, openai_manager, _key_manager, form_data,
                    openrouter_key, openrouter_key_for_text, route_openai_client,
                    use_bootstrap_docs, prev_fallback >>

\* one iteration of the retry loop, and the fallback when the loop ends
ImageAttempt(r) ==
    /\ pc = "loop"
    /\ UNCHANGED html_code
    /\ UNCHANGED pipe_vars
    /\ stage = "image"
    /\ LET e == IF r.kind = "image" THEN Outcome("none", 0, "none", NoBody) ELSE r
           d == IF r.kind = "image" THEN [next |-> "return", rotate |-> FALSE]
                ELSE IF r.kind = "nodata" THEN [next |-> "continue", rotate |-> FALSE]
                ELSE image_on_Exception(r, attempt, max_retries, openai_manager)
       IN  /\ CallObs(openai_client, r, e, is_rate_limit_error_openai(r))
           /\ openai_manager' =
                IF d.rotate THEN rotate_key(openai_manager).m ELSE openai_manager
           /\ last_rotate' =
                IF d.rotate /\ Observing THEN RotateObs("openai", openai_manager)
                ELSE NoObs
           /\ rot' = IF d.rotate /\ Observing THEN rot + 1 ELSE rot
           /\ openai_client' =
                IF d.rotate THEN get_key(rotate_key(openai_manager).m) ELSE openai_client
           /\ last_get' =
                IF d.rotate /\ Observing
                THEN GetObs("openai", rotate_key(openai_manager).m) ELSE NoObs
           /\ IF d.next = "return"
              THEN /\ pc' = "done"
                   /\ result' = "image_url"
                   /\ UNCHANGED attempt
              ELSE IF d.next = "break" \/ attempt + 1 >= max_retries
              THEN /\ pc' = "done"
                   /\ result' = ImageFallback(component_info.name)
                   /\ UNCHANGED attempt
              ELSE /\ attempt' = attempt + 1
                   /\ UNCHANGED << pc, result >>
    /\ UNCHANGED << openrouter_manager, _key_manager, stage, form_data, component_info,
                    openrouter_key, openrouter_key_for_text, route_openai_client,
                    max_retries, use_bootstrap_docs, plan_data, prev_fallback >>

-----------------------------------------------------------------------------
(* generate_component *)

\* generate_all_components line 387: bootstrap_files = []
bootstrap_files == << >>

\* what reaches the except clauses for outcome r; "empty" is the
\* "Empty response" continue of the try block, "none" the return
ComponentRaised(r) ==
    IF r.kind \in {"HTTPError", "Exception"} THEN r
    ELSE IF r.kind = "empty" THEN Outcome("empty", 0, "none", NoBody)
    ELSE Outcome("none", 0, "none", NoBody)

\* except requests.exceptions.HTTPError
component_on_HTTPError(e, att, maxr, m) ==
    IF is_rate_limit_error_openrouter(e) /\ has_multiple_keys(m) /\ rotate_key(m).ret
    THEN [next |-> "continue", rotate |-> TRUE, clear |-> FALSE]
    ELSE [next |-> "raise", rotate |-> FALSE, clear |-> FALSE]

\* except Exception
component_on_Exception(e, att, maxr, m) ==
    IF _is_permission_error(e)
    THEN [next |-> "continue", rotate |-> FALSE, clear |-> TRUE]
    ELSE IF is_rate_limit_error_openrouter(e) /\ has_multiple_keys(m) /\ att < maxr - 1
    THEN [next |-> "continue", rotate |-> TRUE, clear |-> FALSE]
    ELSE IF has_multiple_keys(m) /\ att < maxr - 1
    THEN [next |-> "continue", rotate |-> TRUE, clear |-> FALSE]
    ELSE [next |-> "continue", rotate |-> FALSE, clear |-> FALSE]

\* lines 207-217: size the loop; the key is the caller's argument
StartComponent ==
    /\ pc = "idle"
    /\ UNCHANGED html_code
    /\ image_urls' = generated_image_urls
    /\ attempted' = IF phase = "component"
                    THEN Append(attempted, all_components_from_plan[comp_idx].name)
                    ELSE attempted
    /\ regenerated' = IF phase \in {"regen_contact", "regen_footer"}
                      THEN regenerated \cup
                           {IF phase = "regen_contact" THEN "Contact" ELSE "Footer"}
                      ELSE regenerated
    /\ UNCHANGED << phase, all_components_from_plan, comp_idx, components,
                    generated_image_urls, returned, generated_code, response, img_slots,
                    failed, img_failed >>
    /\ openrouter_key_for_text # None
    /\ stage' = "component"
    /\ openrouter_key' = openrouter_key_for_text
    /\ BeginObs
    /\ attempt' = 0
    /\ pc' = "loop"
    /\ result' = "running"
    /\ plan_data' = NoPlan
    /\ use_bootstrap_docs' = (bootstrap_files # << >>)
    /\ max_retries' =
         MaxRetries(get_all_keys(_key_manager.openrouter_manager))
    /\ last_rotate' = NoObs
    /\ last_get' = NoObs
    /\ UNCHANGED << openrouter_manager, openai_manager, _key_manager, form_data,
                    component_info, openrouter_key_for_text, route_openai_client,
                    openai_client, prev_fallback >>

\* one iteration of the retry loop; when the loop ends, the final call
\* without Bootstrap docs (outcome r2) if use_bootstrap_docs, then return None
ComponentAttempt(r, r2) ==
    /\ pc = "loop"
    /\ UNCHANGED html_code
    /\ UNCHANGED pipe_vars
    /\ stage = "component"
    /\ LET e == ComponentRaised(r)
           d == IF e.kind = "none" THEN [next |-> "return", rotate |-> FALSE, clear |-> FALSE]
                ELSE IF e.kind = "empty"
                THEN [next |-> "continue", rotate |-> FALSE, clear |-> FALSE]
                ELSE IF e.kind = "HTTPError"
                THEN component_on_HTTPError(e, attempt, max_retries, openrouter_manager)
                ELSE component_on_Exception(e, attempt, max_retries, openrouter_manager)
           ubd == use_bootstrap_docs /\ ~d.clear
       IN  /\ RotateOpenRouterIf(d)
           /\ use_bootstrap_docs' = ubd
           /\ IF d.next = "return"
              THEN /\ pc' = "done"
                   /\ result' = "code"
                   /\ CallObs(openrouter_key, r, e, is_rate_limit_error_openrouter(r))
                   /\ UNCHANGED attempt
              ELSE IF d.next = "raise"
              THEN /\ pc' = "done"
                   /\ result' = "raised"
                   /\ CallObs(openrouter_key, r, e, is_rate_limit_error_openrouter(r))
                   /\ UNCHANGED attempt
              ELSE IF attempt + 1 < max_retries
              THEN /\ attempt' = attempt + 1
                   /\ CallObs(openrouter_key, r, e, is_rate_limit_error_openrouter(r))
                   /\ UNCHANGED << pc, result >>
              ELSE IF ubd
              THEN /\ pc' = "done"
                   /\ result' = IF r2.kind = "content" THEN "code" ELSE "none"
                   /\ calls' = calls + 2
                   /\ used' = used \o << openrouter_key, openrouter_key >>
                   /\ first' = IF calls = 0
                             THEN ClassOf(r, e, is_rate_limit_error_openrouter(r))
                             ELSE first
                   /\ all429' = (all429 /\ r.kind = "HTTPError" /\ r.status = 429
                                   /\ r2.kind = "HTTPError" /\ r2.status = 429)
                   /\ allRL' = (allRL /\ CallFailed(r) /\ is_rate_limit_error_openrouter(r)
                                  /\ CallFailed(r2) /\ is_rate_limit_error_openrouter(r2))
                   /\ allFail' = (allFail /\ CallFailed(r) /\ CallFailed(r2))
                   /\ UNCHANGED attempt
              ELSE /\ pc' = "done"
                   /\ result' = "none"
                   /\ CallObs(openrouter_key, r, e, is_rate_limit_error_openrouter(r))
                   /\ UNCHANGED attempt
    /\ last_get' = NoObs
    /\ UNCHANGED << openai_manager, _key_manager, stage, form_data, component_info,
                    openrouter_key, openrouter_key_for_text, route_openai_client,
                    openai_client, max_retries, plan_data, prev_fallback >>

-----------------------------------------------------------------------------
(* combine_components *)

\* what reaches the except clauses for outcome r, or "none" for a return
CombinerRaised(r) ==
    IF r.kind \in {"HTTPError", "Exception"} THEN r
    ELSE IF r.kind = "empty" THEN Outcome("Exception", 0, "none", NoBody)
    ELSE Outcome("none", 0, "none", NoBody)

\* the HTTPError handler rotating only while attempts remain
combiner_on_HTTPError_Guarded(e, att, maxr, m) ==
    IF is_rate_limit_error_openrouter(e) /\ has_multiple_keys(m) /\ att < maxr - 1
    THEN [next |-> "continue", rotate |-> TRUE]
    ELSE [next |-> "raise", rotate |-> FALSE]

\* except requests.exceptions.HTTPError
combiner_on_HTTPError(e, att, maxr, m) ==
    IF is_rate_limit_error_openrouter(e) /\ has_multiple_keys(m) /\ rotate_key(m).ret
    THEN [next |-> "continue", rotate |-> TRUE]
    ELSE [next |-> "raise", rotate |-> FALSE]

\* except Exception
combiner_on_Exception(e, att, maxr, m) ==
    IF is_rate_limit_error_openrouter(e) /\ has_multiple_keys(m) /\ att < maxr - 1
    THEN [next |-> "continue", rotate |-> TRUE]
    ELSE IF att < maxr - 1
    THEN [next |-> "continue", rotate |-> has_multiple_keys(m)]
    ELSE [next |-> "raise", rotate |-> FALSE]

\* lines 136-156 with a document that lacks a component refused
combiner_verify_Refuse(d) == IF d.components_found THEN "return" ELSE "raise"

\* lines 136-156, 170-171: components that are missing from the document
\* are printed as a warning and the document is returned
combiner_verify(d) == "return"

\* lines 59-81: read the key, size the loop
StartCombiner ==
    /\ pc = "idle"
    /\ UNCHANGED html_code
    /\ UNCHANGED pipe_vars
    /\ stage' = "combiner"
    /\ openrouter_key' = get_key(openrouter_manager)
    /\ last_get' = GetObs("openrouter", openrouter_manager)
    /\ BeginObs
    /\ attempt' = 0
    /\ plan_data' = NoPlan
    /\ IF get_key(openrouter_manager) = None
       THEN \* raise Exception("OPENROUTER_API_KEY not configured ...") -> return None
            /\ pc' = "done"
            /\ result' = "none"
            /\ UNCHANGED max_retries
       ELSE /\ pc' = "loop"
            /\ result' = "running"
            /\ max_retries' =
                 MaxRetries(get_all_keys(_key_manager.openrouter_manager))
    /\ last_rotate' = NoObs
    /\ UNCHANGED << openrouter_manager, openai_manager, _key_manager, form_data,
                    component_info, openrouter_key_for_text, route_openai_client,
                    openai_client, use_bootstrap_docs, prev_fallback >>

\* one iteration of the retry loop, and what follows it when the loop ends
CombinerAttempt(r) ==
    /\ pc = "loop"
    /\ UNCHANGED pipe_vars
    /\ stage = "combiner"
    /\ LET e == CombinerRaised(r)
           d == IF e.kind = "none"
                THEN [next |-> combiner_verify(EnsureDoctype(r.body.doc)), rotate |-> FALSE]
                ELSE IF e.kind = "HTTPError"
                THEN combiner_on_HTTPError(e, attempt, max_retries, openrouter_manager)
                ELSE combiner_on_Exception(e, attempt, max_retries, openrouter_manager)
       IN  /\ CallObs(openrouter_key, r, e, is_rate_limit_error_openrouter(r))
           /\ RotateOpenRouterIf(d)
           /\ IF d.next = "return"
              THEN /\ pc' = "done"
                   /\ result' = "html"
                   /\ html_code' = EnsureDoctype(r.body.doc)
                   /\ UNCHANGED attempt
              ELSE IF d.next = "raise" \/ attempt + 1 >= max_retries
              THEN \* the raise of the handler, or "All combination attempts failed"
                   /\ pc' = "done"
                   /\ result' = "none"
                   /\ UNCHANGED << attempt, html_code >>
              ELSE /\ attempt' = attempt + 1
                   /\ UNCHANGED << pc, result, html_code >>
    /\ last_get' = NoObs
    /\ UNCHANGED << openai_manager, _key_manager, stage, form_data, component_info,
                    openrouter_key, openrouter_key_for_text, route_openai_client,
                    openai_client, max_retries, use_bootstrap_docs, plan_data,
                    prev_fallback >>

-----------------------------------------------------------------------------
(* the caller receives the result; the other routes *)

\* the logical call has returned: its locals are gone
ReturnLocals ==
    /\ pc = "done"
    /\ pc' = "idle"
    /\ NoCall
    /\ component_info' = NoComponent
    /\ last_rotate' = NoObs
    /\ last_get' = NoObs
    /\ UNCHANGED << openrouter_manager, openai_manager, _key_manager,
                    openrouter_key_for_text, route_openai_client >>

\* the caller receives the result of a logical call
Return ==
    /\ phase = "free"
    /\ ReturnLocals
    /\ prev_fallback' =
          IF stage = "planner" /\ allFail
          THEN [form_data |-> form_data, plan_data |-> plan_data]
          ELSE prev_fallback
    /\ form_data' = NoProfile
    /\ UNCHANGED pipe_vars

\* lines 104-113 with a rotation that moves the cursor of the image pool too
EditComponentRotate_Both ==
    /\ has_multiple_keys(openrouter_manager)
    /\ pc # "done"
    /\ UNCHANGED html_code
    /\ UNCHANGED pipe_vars
    /\ openrouter_manager' = rotate_key(openrouter_manager).m
    /\ openai_manager' = rotate_key(openai_manager).m
    /\ last_rotate' = RotateObs("openrouter", openrouter_manager)
    /\ last_get' = NoObs
    /\ UNCHANGED << _key_manager, pc, stage, form_data, component_info,
                    openrouter_key, openrouter_key_for_text, route_openai_client,
                    openai_client, max_retries, attempt, use_bootstrap_docs, result,
                    plan_data, calls, used, first, allRL, all429, allFail, rot, prev_fallback >>

\* routes/generate_code.py lines 104-113 (edit_component of another
\* request): rate limit and several keys -> rotate_openrouter_key().  No
\* time passes between a call's return and its caller receiving the
\* result, so a rotation falls before the one or after the other
EditComponentRotate ==
    /\ has_multiple_keys(openrouter_manager)
    /\ pc # "done"
    /\ UNCHANGED html_code
    /\ UNCHANGED pipe_vars
    /\ openrouter_manager' = rotate_key(openrouter_manager).m
    /\ last_rotate' = RotateObs("openrouter", openrouter_manager)
    /\ last_get' = NoObs
    /\ UNCHANGED << openai_manager, _key_manager, pc, stage, form_data, component_info,
                    openrouter_key, openrouter_key_for_text, route_openai_client,
                    openai_client, max_retries, attempt, use_bootstrap_docs, result,
                    plan_data, calls, used, first, allRL, all429, allFail, rot, prev_fallback >>

\* routes/generate_image.py lines 41-96 (another request): a key is
\* configured and the call is rate limited -> _key_manager.rotate_key()
GenerateImageRotate ==
    /\ get_key(_key_manager.openai_manager) # None
    /\ pc # "done"
    /\ UNCHANGED html_code
    /\ UNCHANGED pipe_vars
    /\ _key_manager' =
          [_key_manager EXCEPT !.openai_manager = rotate_key(_key_manager.openai_manager).m]
    /\ last_rotate' = RotateObs("_key_manager.openai", _key_manager.openai_manager)
    /\ last_get' = GetObs("_key_manager.openai", _key_manager.openai_manager)
    /\ UNCHANGED << openrouter_manager, openai_manager, pc, stage, form_data,
                    component_info, openrouter_key, openrouter_key_for_text,
                    route_openai_client, openai_client, max_retries, attempt,
                    use_bootstrap_docs, result, plan_data, calls, used, first, allRL, all429,
                    allFail, rot, prev_fallback >>

-----------------------------------------------------------------------------
(* generate_all_components and create_website: one request from start to answer *)

\* insert c behind every entry whose order is not larger (list.sort is stable)
RECURSIVE InsertByOrder(_, _)
InsertByOrder(s, c) ==
    IF s = << >> THEN << c >>
    ELSE IF c.order < Head(s).order THEN << c >> \o s
    ELSE << Head(s) >> \o InsertByOrder(Tail(s), c)

\* all_components_from_plan.sort(key=lambda x: x.get('order', 999))
RECURSIVE SortByOrder(_)
SortByOrder(all) ==
    IF all = << >> THEN << >>
    ELSE InsertByOrder(SortByOrder(SubSeq(all, 1, Len(all) - 1)), all[Len(all)])

\* lines 394-432: a plan without all_components gets the four fixed
\* components followed by its dynamic_components
ComponentsFromPlan(plan) ==
    IF plan.all_components # << >> THEN plan.all_components
    ELSE << Desc("Navigation", 1, FALSE, NoPrompt), Desc("Hero", 2, TRUE, NoPrompt),
            Desc("Contact", 7, FALSE, NoPrompt), Desc("Footer", 8, FALSE, NoPrompt) >>
         \o plan.dynamic_components

\* key in dict
Has(d, k) == \E i \in 1..Len(d) : d[i] = k

\* dict[key] = value: a new key goes to the end, a known key keeps its place
Put(d, k) == IF Has(d, k) THEN d ELSE Append(d, k)

\* next((c for c in all_components_from_plan if c.get('name') == n), None) is not None
HasNamed(all, n) == \E i \in 1..Len(all) : all[i].name = n

\* the image reference a finished image call hands back: the saved file
\* /static/generated/<comp_slug>_<timestamp>.png or one of the fallback paths
ImageRef(res, comp_name) ==
    IF res = "image_url" THEN << "generated", comp_name >> ELSE << res >>

\* lines 463-464 with the list started anew for every reference
AppendImage_Replace(urls, res, comp_name) ==
    IF res = "none" THEN urls ELSE << ImageRef(res, comp_name) >>

\* lines 463-464: if image_url: generated_image_urls.append(image_url)
AppendImage(urls, res, comp_name) ==
    IF res = "none" THEN urls ELSE Append(urls, ImageRef(res, comp_name))

\* what generate_all_components has not returned yet; raised tells whether
\* the call ended in an exception instead of a return value
NoReturned == [components |-> << >>, has_images |-> FALSE, images |-> << >>, raised |-> FALSE]

\* lines 565-568: the images go into the dict under '__generated_images__'
generate_all_return(comps, imgs) ==
    [components |-> comps, has_images |-> TRUE, images |-> imgs, raised |-> FALSE]

\* lines 570-574 with the exception raised again
generate_all_except_Reraise(comps, imgs) ==
    [components |-> << >>, has_images |-> FALSE, images |-> << >>, raised |-> TRUE]

\* lines 570-574: except Exception -> return components
generate_all_except(comps, imgs) ==
    [components |-> comps, has_images |-> FALSE, images |-> << >>, raised |-> FALSE]

\* lines 505, 530 without the tests "'Contact' not in components" and
\* "'Footer' not in components"
AfterLoop_Unconditional(comps, all, pos) ==
    IF pos = "loop" /\ HasNamed(all, "Contact")
    THEN "regen_contact"
    ELSE IF pos \in {"loop", "regen_contact"} /\ HasNamed(all, "Footer")
    THEN "regen_footer"
    ELSE "returned"

\* where generate_all_components goes on after the main loop (pos = "loop")
\* or after the Contact check (pos = "regen_contact"): lines 505, 509, 530, 534
AfterLoop(comps, all, pos) ==
    IF pos = "loop" /\ ~Has(comps, "Contact") /\ HasNamed(all, "Contact")
    THEN "regen_contact"
    ELSE IF pos \in {"loop", "regen_contact"} /\ ~Has(comps, "Footer")
            /\ HasNamed(all, "Footer")
    THEN "regen_footer"
    ELSE "returned"

\* the phase in which descriptor c of the main loop starts: lines 452, 482
LoopPhase(c) == IF c.needs_image THEN "image" ELSE "component"

\* the name generate_component is called for in the given phase
ComponentName(ph, all, idx) ==
    IF ph = "regen_contact" THEN "Contact"
    ELSE IF ph = "regen_footer" THEN "Footer"
    ELSE IF ph = "component" THEN all[idx].name
    ELSE "none"

\* create_website's answer; calls and rot are the provider requests and
\* rotations of the logical call that ended right before the answer
Resp(st, detail, code, imgs, n_calls, n_rot) ==
    [status |-> st, detail |-> detail, code |-> code, images |-> imgs,
     calls |-> n_calls, rot |-> n_rot]

NoResponse == Resp(0, "none", NoDoc, << >>, 0, 0)

\* routes/generate_code.py lines 271-283: Bootstrap's stylesheet goes in
\* front of '</head>' or behind '<head>', its script in front of '</body>'
\* or behind '<body>', when the document does not name Bootstrap's CDN
EnsureBootstrap(d) ==
    IF d.bootstrap_cdn THEN d
    ELSE [d EXCEPT !.css_framework = d.css_framework \/ d.head_close \/ d.head_open,
                   !.bootstrap_cdn = \/ d.head_close \/ d.head_open
                                     \/ d.body_close \/ d.body_open]

\* lines 147-184: the form is accepted and the planner is about to be called
CreateWebsite(fd) ==
    /\ phase = "request"
    /\ phase' = "planner"
    /\ form_data' = fd
    /\ last_rotate' = NoObs
    /\ last_get' = NoObs
    /\ UNCHANGED << openrouter_manager, openai_manager, _key_manager, pc, stage,
                    component_info, openrouter_key, openrouter_key_for_text,
                    route_openai_client, openai_client, max_retries, attempt,
                    use_bootstrap_docs, result, plan_data, html_code, calls, used, first,
                    allRL, all429, allFail, rot, prev_fallback, all_components_from_plan, comp_idx,
                    components, generated_image_urls, image_urls, returned, generated_code,
                    response, img_slots, attempted, failed, regenerated, img_failed >>

\* line 184: plan_data = plan_website_components(form_data)
CallPlanner ==
    /\ phase = "planner"
    /\ stage = "none"
    /\ StartPlanner(form_data)

\* lines 186-217, then generate_all_components lines 373-444: the plan is
\* back, both keys are read (a missing key ends the request), the
\* descriptors are sorted and the main loop reaches its first descriptor
AfterPlanner ==
    /\ phase = "planner"
    /\ pc = "done"
    /\ stage = "planner"
    /\ pc' = "idle"
    /\ NoCall
    /\ component_info' = NoComponent
    /\ last_rotate' = NoObs
    /\ last_get' = IF get_key(openai_manager) = None
                   THEN GetObs("openai", openai_manager)
                   ELSE GetObs("openrouter", openrouter_manager)
    /\ route_openai_client' = get_key(openai_manager)
    /\ openrouter_key_for_text' =
          IF get_key(openai_manager) = None THEN None ELSE get_key(openrouter_manager)
    /\ IF get_key(openai_manager) = None
       THEN /\ response' = Resp(500, "OPENAI_API_KEY not configured for image generation",
                                NoDoc, << >>, calls, rot)
            /\ phase' = "responded"
            /\ UNCHANGED << all_components_from_plan, comp_idx >>
       ELSE IF get_key(openrouter_manager) = None
       THEN /\ response' = Resp(500,
                                "OPENROUTER_API_KEY not configured for component generation",
                                NoDoc, << >>, calls, rot)
            /\ phase' = "responded"
            /\ UNCHANGED << all_components_from_plan, comp_idx >>
       ELSE LET all == SortByOrder(ComponentsFromPlan(plan_data))
            IN  /\ all_components_from_plan' = all
                /\ comp_idx' = 1
                /\ phase' = LoopPhase(all[1])
                /\ UNCHANGED response
    /\ prev_fallback' = IF allFail
                        THEN [form_data |-> form_data, plan_data |-> plan_data]
                        ELSE prev_fallback
    /\ UNCHANGED << openrouter_manager, openai_manager, _key_manager, form_data,
                    components, generated_image_urls, image_urls, returned,
                    generated_code, img_slots, attempted, failed, regenerated, img_failed >>

\* lines 452-461: image_url = generate_image_for_component(component_info=comp, ...)
CallImage ==
    /\ phase = "image"
    /\ stage = "none"
    /\ StartImage(all_components_from_plan[comp_idx])

\* lines 463-467: a reference that was handed back is appended to the list
AfterImage ==
    /\ phase = "image"
    /\ stage = "image"
    /\ ReturnLocals
    /\ LET comp == all_components_from_plan[comp_idx]
       IN  /\ generated_image_urls' = AppendImage(generated_image_urls, result, comp.name)
           /\ img_slots' = IF result = "none" THEN img_slots
                           ELSE Append(img_slots, comp.order)
           /\ img_failed' = IF calls >= 1 /\ allFail
                            THEN img_failed \cup {comp.name}
                            ELSE img_failed
    /\ phase' = "component"
    /\ UNCHANGED << form_data, prev_fallback, all_components_from_plan, comp_idx,
                    components, image_urls, returned, generated_code, response, attempted,
                    failed, regenerated >>

\* lines 482-497, 510-525, 535-550: comp_code = await generate_component(...)
CallComponent ==
    /\ phase \in {"component", "regen_contact", "regen_footer"}
    /\ stage = "none"
    /\ StartComponent

\* lines 499-502 (526-527, 551-553 for a regeneration), then the next
\* descriptor, the checks behind the loop (505-553) and the return (555-568);
\* an exception generate_component let out ends in the except clause (570-574)
AfterComponent ==
    /\ phase \in {"component", "regen_contact", "regen_footer"}
    /\ stage = "component"
    /\ ReturnLocals
    /\ LET all   == all_components_from_plan
           name  == ComponentName(phase, all, comp_idx)
           comps == IF result = "code" THEN Put(components, name) ELSE components
           pos   == IF phase = "component" THEN "loop" ELSE phase
           nxt   == AfterLoop(comps, all, pos)
       IN  /\ components' = comps
           /\ failed' = IF phase = "component" /\ result # "code"
                        THEN failed \cup {name} ELSE failed
           /\ IF result = "raised"
              THEN /\ returned' = generate_all_except(comps, generated_image_urls)
                   /\ phase' = "returned"
                   /\ UNCHANGED comp_idx
              ELSE IF phase = "component" /\ comp_idx < Len(all)
              THEN /\ comp_idx' = comp_idx + 1
                   /\ phase' = LoopPhase(all[comp_idx + 1])
                   /\ UNCHANGED returned
              ELSE /\ phase' = nxt
                   /\ returned' = IF nxt = "returned"
                                  THEN generate_all_return(comps, generated_image_urls)
                                  ELSE returned
                   /\ UNCHANGED comp_idx
    /\ UNCHANGED << form_data, prev_fallback, all_components_from_plan,
                    generated_image_urls, image_urls, generated_code, response, img_slots,
                    attempted, regenerated, img_failed >>

\* routes/generate_code.py lines 234-247: fewer than 4 entries in the
\* returned dict end the request; '__generated_images__' is one of the
\* entries.  generate_all_components has returned: its locals are gone
AfterGenerateAll ==
    /\ phase = "returned"
    /\ pc = "idle"
    /\ LET n == Len(returned.components) + (IF returned.has_images THEN 1 ELSE 0)
       IN  IF n < 4
           THEN /\ response' = Resp(500, "Failed to generate components", NoDoc, << >>, 0, 0)
                /\ phase' = "responded"
           ELSE /\ phase' = "combiner"
                /\ UNCHANGED response
    /\ all_components_from_plan' = << >>
    /\ comp_idx' = 0
    /\ components' = << >>
    /\ generated_image_urls' = << >>
    /\ image_urls' = << >>
    /\ img_slots' = << >>
    /\ attempted' = << >>
    /\ failed' = {}
    /\ regenerated' = {}
    /\ img_failed' = {}
    /\ last_rotate' = NoObs
    /\ last_get' = NoObs
    /\ UNCHANGED << openrouter_manager, openai_manager, _key_manager, pc, stage, form_data,
                    component_info, openrouter_key, openrouter_key_for_text,
                    route_openai_client, openai_client, max_retries, attempt,
                    use_bootstrap_docs, result, plan_data, html_code, calls, used, first,
                    allRL, all429, allFail, rot, prev_fallback, returned, generated_code >>

\* lines 250-258: generated_code = combine_components(...)
CallCombiner ==
    /\ phase = "combiner"
    /\ stage = "none"
    /\ StartCombiner

\* lines 260-300: no document, a short one or one without html / body tags
\* ends the request with status 500; otherwise Bootstrap is ensured and
\* the document is answered together with the images
AfterCombiner ==
    /\ phase = "combiner"
    /\ stage = "combiner"
    /\ ReturnLocals
    /\ phase' = "responded"
    /\ IF result = "none"
       THEN /\ response' = Resp(500, "Failed to combine components into final HTML",
                                NoDoc, << >>, calls, rot)
            /\ UNCHANGED generated_code
       ELSE IF ~html_code.long
       THEN /\ response' = Resp(500, "Generated code is too short or empty",
                                NoDoc, << >>, calls, rot)
            /\ generated_code' = html_code
       ELSE IF ~html_code.html_ci \/ ~html_code.body_ci
       THEN /\ response' = Resp(500, "Generated code is missing required HTML structure",
                                NoDoc, << >>, calls, rot)
            /\ generated_code' = html_code
       ELSE /\ generated_code' = EnsureBootstrap(html_code)
            /\ response' = Resp(200, "success", EnsureBootstrap(html_code),
                                IF returned.has_images THEN returned.images ELSE << >>,
                                calls, rot)
    /\ UNCHANGED << form_data, prev_fallback, all_components_from_plan, comp_idx,
                    components, generated_image_urls, image_urls, returned, img_slots,
                    attempted, failed, regenerated, img_failed >>

-----------------------------------------------------------------------------

\* the state after the modules are imported: pools of n_openrouter and
\* n_openai keys, no call running; ph tells whether one request is followed
InitState(n_openrouter, n_openai, ph) ==
    /\ openrouter_manager = NewManager("openrouter", n_openrouter)
    /\ openai_manager = NewManager("openai", n_openai)
    /\ _key_manager = [openai_manager     |-> NewManager("openai", n_openai),
                       openrouter_manager |-> NewManager("openrouter", n_openrouter)]
    /\ pc = "idle"
    /\ stage = "none"
    /\ form_data = NoProfile
    /\ component_info = NoComponent
    /\ openrouter_key = None
    /\ openrouter_key_for_text = None
    /\ route_openai_client = None
    /\ openai_client = None
    /\ max_retries = 1
    /\ attempt = 0
    /\ use_bootstrap_docs = FALSE
    /\ result = "none"
    /\ plan_data = NoPlan
    /\ html_code = NoDoc
    /\ calls = 0
    /\ used = << >>
    /\ first = "none"
    /\ allRL = TRUE
    /\ all429 = TRUE
    /\ allFail = TRUE
    /\ rot = 0
    /\ last_rotate = NoObs
    /\ last_get = NoObs
    /\ prev_fallback = [form_data |-> NoProfile, plan_data |-> NoPlan]
    /\ phase = ph
    /\ all_components_from_plan = << >>
    /\ comp_idx = 0
    /\ components = << >>
    /\ generated_image_urls = << >>
    /\ image_urls = << >>
    /\ returned = NoReturned
    /\ generated_code = NoDoc
    /\ response = NoResponse
    /\ img_slots = << >>
    /\ attempted = << >>
    /\ failed = {}
    /\ regenerated = {}
    /\ img_failed = {}

Init ==
    \E n_openrouter \in {0, 1, MaxKeys}, n_openai \in {0, 1, MaxKeys} :
        InitState(n_openrouter, n_openai, "free")

Next ==
    \/ \E fd \in Profiles : StartPlanner(fd)
    \/ \E r \in PlannerOutcomes : PlannerAttempt(r)
    \/ RouteGetKeys
    \/ \E comp \in ImageComponents : StartImage(comp)
    \/ \E r \in ImageOutcomes : ImageAttempt(r)
    \/ StartComponent
    \/ \E r \in HtmlOutcomes, r2 \in HtmlOutcomes : ComponentAttempt(r, r2)
    \/ StartCombiner
    \/ \E r \in CombinerOutcomes : CombinerAttempt(r)
    \/ Return
    \/ EditComponentRotate
    \/ GenerateImageRotate

Spec == Init /\ [][Next]_vars

\* the profile and the planner answers of the followed request
PipelineProfiles ==
    { [businessCategory |-> "Food", businessSubCategory |-> "Bakery", themeColor |-> "#112233"] }

PipelinePlannerOutcomes ==
    ErrorOutcomes \cup { Outcome("content", 200, "none", Body(TRUE, TRUE, cs)) :
                            cs \in {GoodComponents, SwappedComponents, NoRolesComponents} }

\* image and markup calls of the followed request that have failed so far
Failures == Cardinality(failed) + Cardinality(img_failed)

\* what the providers may answer to the next attempt of the followed request
PipelineImageOutcomes ==
    IF Failures < MaxFailures THEN ImageOutcomes
    ELSE { r \in ImageOutcomes : r.kind = "image" }

PipelineHtmlOutcomes ==
    IF Failures < MaxFailures THEN HtmlOutcomes
    ELSE { r \in HtmlOutcomes : r.kind = "content" }

\* one create_website request, alone, on pools that are empty, single or
\* full, from the form to the answer
PipelineInit ==
    \E n_openrouter \in {0, 1, MaxKeys}, n_openai \in {0, 1, MaxKeys} :
        InitState(n_openrouter, n_openai, "request")

PipelineNext ==
    \/ \E fd \in PipelineProfiles : CreateWebsite(fd)
    \/ CallPlanner
    \/ \E r \in PipelinePlannerOutcomes : PlannerAttempt(r)
    \/ AfterPlanner
    \/ CallImage
    \/ \E r \in PipelineImageOutcomes : ImageAttempt(r)
    \/ AfterImage
    \/ CallComponent
    \/ \E r \in PipelineHtmlOutcomes, r2 \in HtmlOutcomes : ComponentAttempt(r, r2)
    \/ AfterComponent
    \/ AfterGenerateAll
    \/ CallCombiner
    \/ \E r \in CombinerOutcomes : CombinerAttempt(r)
    \/ AfterCombiner

Pipeline == PipelineInit /\ [][PipelineNext]_vars

-----------------------------------------------------------------------------
(* Properties *)

\* C1: with a pool of N >= 1 keys, a planner / component / combiner call
\* whose every provider attempt failed with a rate-limit error has made
\* exactly N attempts when it ends, and it ends in terminal failure.
C1_RateLimitedCallMakesNAttempts ==
    LET N == Len(openrouter_manager.keys)
    IN  (pc = "done" /\ stage \in {"planner", "component", "combiner"} /\ N >= 1 /\ allRL)
        => /\ calls = N
           /\ \/ stage = "planner" /\ result = "fallback"
              \/ stage = "component" /\ result \in {"none", "raised"}
              \/ stage = "combiner" /\ result = "none"

\* a call over a pool of two keys ended after two rate-limited attempts
C1_Witness ==
    /\ pc = "done"
    /\ stage \in {"planner", "component", "combiner"}
    /\ Len(openrouter_manager.keys) >= 2
    /\ allRL
    /\ calls = Len(openrouter_manager.keys)

\* C2: with a pool of one key, a call whose first attempt failed with a
\* rate-limit error ends after that one attempt, in terminal failure, without
\* having rotated; the cursor is where it was.
C2_SingleKeyFailsAtOnce ==
    (/\ stage \in {"planner", "component", "combiner"}
     /\ Len(openrouter_manager.keys) = 1
     /\ first = "rate_limit")
    => /\ pc = "done"
       /\ calls = 1
       /\ rot = 0
       /\ last_rotate.pool # "openrouter"
       /\ openrouter_manager.current_key_index = 0
       /\ \/ stage = "planner" /\ result = "fallback"
          \/ stage = "component" /\ result \in {"none", "raised"}
          \/ stage = "combiner" /\ result = "none"

\* a single-key call ended after one rate-limited attempt
C2_Witness ==
    /\ pc = "done"
    /\ stage \in {"planner", "component", "combiner"}
    /\ Len(openrouter_manager.keys) = 1
    /\ first = "rate_limit"
    /\ calls = 1

\* C3 (as claimed): with more than one key, a call whose first attempt failed
\* with an error that is not a rate limit (HTTP failure, other exception,
\* empty answer, rejected content) has made exactly one provider attempt
\* when it ends.
C3_NonRateLimitFailsAtOnce ==
    (/\ pc = "done"
     /\ stage \in {"planner", "component", "combiner"}
     /\ Len(openrouter_manager.keys) > 1
     /\ first \in {"http_error", "exception", "empty", "rejected"})
    => calls = 1

\* C4 (as claimed): within one logical call no credential is presented to
\* the provider twice.
C4_EachCredentialAtMostOnce ==
    stage \in {"planner", "component", "combiner"}
    => \A i \in 1..Len(used) : \A j \in 1..Len(used) : (i # j) => used[i] # used[j]

\* C5: every non-empty key pool has its cursor inside the list, in every
\* state any interleaving of the flow's steps and other requests' rotations
\* reaches, and every key handed out is one of the pool's keys.
C5_CursorInRange ==
    /\ \A m \in {openrouter_manager, openai_manager, _key_manager.openai_manager,
                 _key_manager.openrouter_manager} :
          Len(m.keys) > 0 =>
             /\ 0 <= m.current_key_index
             /\ m.current_key_index < Len(m.keys)
             /\ \E i \in 1..Len(m.keys) : get_key(m) = m.keys[i]
    /\ (last_get.pool # "none" /\ last_get.size > 0) =>
          \E i \in 1..last_get.size : last_get.value = last_get.keys[i]

\* the flow's own rotation wrapped the cursor to 0 after another request
\* had moved it
C5_Witness ==
    /\ pc = "loop"
    /\ rot = 1
    /\ last_rotate.pool = "openrouter"
    /\ last_rotate.before = last_rotate.size - 1
    /\ last_rotate.after = 0
    /\ openrouter_manager.current_key_index = 0

\* C6: rotate_key on a pool of at most one key returns false and leaves the
\* cursor alone; on a larger pool it returns true and moves the cursor to
\* (cursor + 1) mod size.  get_key returns the key under the cursor, or None
\* for an empty pool.
C6_RotateAndCurrent ==
    /\ last_rotate.pool # "none" =>
          /\ last_rotate.size <= 1 =>
                (~last_rotate.ret /\ last_rotate.after = last_rotate.before)
          /\ last_rotate.size > 1 =>
                /\ last_rotate.ret
                /\ last_rotate.after = (last_rotate.before + 1) % last_rotate.size
    /\ last_rotate.pool = "openrouter" =>
          openrouter_manager.current_key_index = last_rotate.after
    /\ last_rotate.pool = "openai" =>
          openai_manager.current_key_index = last_rotate.after
    /\ last_rotate.pool = "_key_manager.openai" =>
          _key_manager.openai_manager.current_key_index = last_rotate.after
    /\ last_get.pool # "none" =>
          last_get.value = IF last_get.size = 0 THEN None
                           ELSE last_get.keys[last_get.index + 1]

\* rotate_key was called on a pool of one key, and get_key in the same step
C6_Witness ==
    /\ last_rotate.pool # "none"
    /\ last_rotate.size = 1
    /\ last_get.pool # "none"

\* C7 (as claimed): every plan the planner returns has exactly 8 descriptors
\* whose slots are a permutation of 1..8, with Navigation, Hero, Contact and
\* Footer in slots 1, 2, 7 and 8.
C7_PlanHasEightSlots ==
    (pc = "done" /\ stage = "planner") =>
        LET all == plan_data.all_components
        IN  /\ Len(all) = 8
            /\ \A k \in 1..8 : \E i \in 1..Len(all) : all[i].order = k
            /\ \A i \in 1..Len(all) :
                  /\ all[i].order = 1 => all[i].name = "Navigation"
                  /\ all[i].order = 2 => all[i].name = "Hero"
                  /\ all[i].order = 7 => all[i].name = "Contact"
                  /\ all[i].order = 8 => all[i].name = "Footer"

\* C8: a planner call whose provider calls all failed returns the fallback
\* plan, which is determined by the business profile alone: it equals the
\* plan of the earlier such call with the same profile.
C8_FallbackIsDeterministic ==
    (pc = "done" /\ stage = "planner" /\ allFail) =>
        /\ result = "fallback"
        /\ [i \in 1..Len(plan_data.all_components) |-> plan_data.all_components[i].name]
             = << "Navigation", "Hero", "Services", "About", "Features",
                  "Testimonials", "Contact", "Footer" >>
        /\ plan_data.component_order = << 1, 2, 3, 4, 5, 6, 7, 8 >>
        /\ prev_fallback.form_data = form_data => prev_fallback.plan_data = plan_data

\* the second of two failed planner calls with the same profile has ended,
\* after at least one provider attempt
C8_Witness ==
    /\ pc = "done"
    /\ stage = "planner"
    /\ allFail
    /\ calls >= 1
    /\ prev_fallback.form_data = form_data

\* C9 (as claimed): the planner always returns a plan, and it returns the
\* provider's plan only if that plan has 8 components with the fixed roles
\* Navigation, Hero, Contact and Footer among them.
C9_InvalidPlanFallsBack ==
    (pc = "done" /\ stage = "planner") =>
        /\ result \in {"plan", "fallback"}
        /\ result = "plan" =>
              /\ Len(plan_data.all_components) = 8
              /\ \A role \in {"Navigation", "Hero", "Contact", "Footer"} :
                    \E i \in 1..Len(plan_data.all_components) :
                        plan_data.all_components[i].name = role

\* C10 (as claimed): in every returned plan Hero needs an image and
\* Navigation, Contact and Footer do not.
C10_FixedRoleImageFlags ==
    (pc = "done" /\ stage = "planner") =>
        \A i \in 1..Len(plan_data.all_components) :
            LET c == plan_data.all_components[i]
            IN  /\ c.name = "Hero" => c.needs_image
                /\ c.name \in {"Navigation", "Contact", "Footer"} => ~c.needs_image

\* C11 (as claimed): in the component map generate_all_components returns,
\* the entries follow each other in ascending slot order of their
\* descriptors, also when Contact or Footer was put in by the regeneration
\* behind the loop.
C11_InsertionOrderIsSlotOrder ==
    phase = "returned" =>
        LET all == all_components_from_plan
            rc  == returned.components
            slot(n) == all[CHOOSE k \in 1..Len(all) : all[k].name = n].order
        IN  \A i \in 1..Len(rc) : \A j \in 1..Len(rc) :
                i < j => slot(rc[i]) < slot(rc[j])

\* C12: while generate_all_components runs, its image list only grows at
\* the end, and the list handed to the markup call of the descriptor at
\* position k holds one reference for every descriptor up to k that an
\* image was obtained for (its own included), in the order of the slots.
C12_ImagesAccumulate ==
    /\ [](stage = "component" /\ phase \in {"component", "regen_contact", "regen_footer"}
          => LET all  == all_components_from_plan
                 need == SelectSeq(SubSeq(all, 1, comp_idx),
                                   LAMBDA c : c.needs_image /\ c.image_prompt # NoPrompt)
             IN  /\ image_urls = generated_image_urls
                 /\ Len(image_urls) = Len(need)
                 /\ img_slots = [i \in 1..Len(need) |-> need[i].order]
                 /\ \A i \in 1..Len(need) :
                       image_urls[i] \in { << "generated", need[i].name >>,
                                           << ImageFallback(need[i].name) >> })
    /\ [][(phase \in {"image", "component", "regen_contact", "regen_footer"})
          => (Len(generated_image_urls') >= Len(generated_image_urls)
              /\ (SubSeq(generated_image_urls', 1, Len(generated_image_urls))
                    = generated_image_urls))]_vars

\* the markup call of a descriptor that needs no image was handed the
\* references of two earlier descriptors
C12_Witness ==
    /\ phase = "component"
    /\ stage = "component"
    /\ ~all_components_from_plan[comp_idx].needs_image
    /\ Len(image_urls) >= 2
    /\ image_urls[1] # image_urls[2]

C14_FailedFooterIsRegenerated ==
    /\ [](phase = "returned" =>
            \A n \in {"Contact", "Footer"} : n \in failed => n \in regenerated)
    /\ [][(phase \in {"regen_contact", "regen_footer"} /\ stage = "component"
            /\ pc = "done" /\ result = "code")
          => Has(components', ComponentName(phase, all_components_from_plan, comp_idx))]_vars

\* C15 (as claimed): whatever way the markup call of one descriptor failed,
\* generate_all_components has started the markup call of every descriptor
\* of the plan when it returns, and the image call of every descriptor that
\* needs an image and has a prompt for it.
C15_LaterSlotsStillProcessed ==
    phase = "returned" =>
        LET all  == all_components_from_plan
            need == SelectSeq(all, LAMBDA c : c.needs_image /\ c.image_prompt # NoPrompt)
        IN  /\ attempted = [i \in 1..Len(all) |-> all[i].name]
            /\ Len(generated_image_urls) = Len(need)

\* C16 (as claimed): a document that combine_components returns starts with
\* the document declaration, and the document create_website answers with
\* contains, whatever the case of the letters, the document declaration,
\* a head tag, html and body tags and a reference to a CSS framework.
C16_DocumentHasMarkers ==
    /\ (stage = "combiner" /\ pc = "done" /\ result = "html") =>
          html_code.starts_doctype /\ html_code.doctype_ci
    /\ response.status = 200 =>
          /\ response.code.doctype_ci
          /\ response.code.html_ci
          /\ response.code.head_ci
          /\ response.code.body_ci
          /\ response.code.css_framework

C18_DegradedResultIsNotFatal ==
    /\ []((pc = "done" /\ stage = "planner" /\ allFail) => result = "fallback")
    /\ [][(/\ phase = "returned"
            /\ prev_fallback.form_data = form_data
            /\ attempted # << >>
            /\ returned.components = << >>)
          => (~returned.raised /\ response'.status # 500)]_vars

\* C19 (as claimed): a request that finds the key pool of the text or of
\* the image provider empty is answered with an error, and no provider
\* request and no rotation was made on its behalf before that answer.
C19_MissingKeyFailsAtOnce ==
    (phase = "responded"
       /\ (Len(openrouter_manager.keys) = 0 \/ Len(openai_manager.keys) = 0))
    => /\ response.status = 500
       /\ response.calls = 0
       /\ response.rot = 0

\* C20 (as claimed): whichever way generate_all_components returns, the
\* returned dict carries the image list, with every reference that was
\* appended during the run.
C20_ReturnCarriesImages ==
    phase = "returned" =>
        /\ returned.has_images
        /\ returned.images = generated_image_urls

\* get_openai_key() / get_openrouter_key(): the key under the cursor of the
\* pool the running call draws from
PoolCurrent == IF stage = "image" THEN get_key(openai_manager) ELSE get_key(openrouter_manager)

\* C21 (as claimed): when every attempt of a call so far failed with a
\* rate-limit error and was followed by a rotation, the next attempt of
\* that call presents the key that is under the pool's cursor at that
\* moment, not the key of the failed attempt.
C21_RetryUsesRotatedKey ==
    [][(pc = "loop" /\ calls >= 1 /\ allRL /\ rot = calls /\ calls' = calls + 1)
       => (used'[calls'] = PoolCurrent /\ used'[calls'] # used[calls])]_vars

\* C22 (as claimed): a failure that is not classified as a rate limit does
\* not rotate the pool: a call whose only attempt so far failed with an
\* HTTP error other than 429, another exception, an empty or an unusable
\* answer has made no rotation.
C22_OtherFailureDoesNotRotate ==
    (/\ stage \in {"planner", "image", "component", "combiner"}
     /\ calls = 1
     /\ first \in {"http_error", "exception", "empty", "rejected"})
    => rot = 0

\* the results of a logical call that one of its attempts succeeded with
Succeeded == {"plan", "image_url", "code", "html"}

\* C23: the step in which an attempt succeeds ends the logical call and
\* leaves every pool as it was, and a call that has ended with a success
\* sends no further provider request.
C23_SuccessReturnsAtOnce ==
    /\ [][(pc = "loop" /\ calls' = calls + 1 /\ result' \in Succeeded)
          => /\ pc' = "done"
             /\ openrouter_manager' = openrouter_manager
             /\ openai_manager' = openai_manager
             /\ _key_manager' = _key_manager]_vars
    /\ [][(pc = "done" /\ result \in Succeeded) => (calls' = calls \/ pc' = "idle")]_vars

\* a markup or planner call over several keys succeeded on its second
\* attempt, after a rate-limited first one had rotated the pool
C23_Witness ==
    /\ pc = "done"
    /\ stage \in {"planner", "component"}
    /\ result \in Succeeded
    /\ calls = 2
    /\ rot = 1
    /\ first = "rate_limit"
    /\ openrouter_manager.current_key_index = 1

\* the results of a logical call that ended without a successful attempt
Terminal == {"fallback", "none", "raised", "hero_fallback_path", "additional_fallback_path"}

\* the logical calls of one flow while no other request is running
FlowNext ==
    \/ \E fd \in Profiles : StartPlanner(fd)
    \/ \E r \in PlannerOutcomes : PlannerAttempt(r)
    \/ RouteGetKeys
    \/ \E comp \in ImageComponents : StartImage(comp)
    \/ \E r \in ImageOutcomes : ImageAttempt(r)
    \/ StartComponent
    \/ \E r \in HtmlOutcomes, r2 \in HtmlOutcomes : ComponentAttempt(r, r2)
    \/ StartCombiner
    \/ \E r \in CombinerOutcomes : CombinerAttempt(r)
    \/ Return

\* that flow with the provider answering every request in the end
FairSpec ==
    /\ Init
    /\ [][FlowNext]_vars
    /\ WF_vars(\E r \in PlannerOutcomes : PlannerAttempt(r))
    /\ WF_vars(\E r \in ImageOutcomes : ImageAttempt(r))
    /\ WF_vars(\E r \in HtmlOutcomes, r2 \in HtmlOutcomes : ComponentAttempt(r, r2))
    /\ WF_vars(\E r \in CombinerOutcomes : CombinerAttempt(r))

\* C24: whatever the provider answers, a logical call that has entered its
\* retry loop leaves it; it has then made at most max(pool size, 1)
\* attempts, every attempt either ended the call or used up one iteration,
\* and it ended with a success or with its terminal failure.
C24_CallTerminates ==
    /\ [](stage # "none" =>
            LET N == IF stage = "image" THEN Len(openai_manager.keys)
                     ELSE Len(openrouter_manager.keys)
            IN  /\ calls <= (IF N > 1 THEN N ELSE 1)
                /\ pc = "loop" => (attempt < max_retries /\ calls = attempt)
                /\ pc = "done" => result \in Succeeded \cup Terminal
                /\ (pc = "done" /\ calls >= 1 /\ allFail) => result \in Terminal)
    /\ [][(pc = "loop" /\ calls' = calls + 1) => (pc' = "done" \/ attempt' = attempt + 1)]_vars
    /\ (pc = "loop" ~> pc = "done")

\* a markup call over several keys ended in its terminal failure after as
\* many attempts as there are keys, the first of them not a rate limit
C24_Witness ==
    /\ pc = "done"
    /\ stage = "component"
    /\ result = "none"
    /\ Len(openrouter_manager.keys) >= 2
    /\ calls = Len(openrouter_manager.keys)
    /\ first \in {"exception", "empty"}

\* C25 (as claimed): a markup call whose retry loop ran out of attempts
\* without a success has sent exactly one request more than the loop made
\* when it gives the component up, and no markup call ever sends more.
C25_OneReducedCallAfterLoop ==
    (pc = "done" /\ stage = "component") =>
        /\ calls <= max_retries + 1
        /\ result = "none" => calls = max_retries + 1

\* C26: an attempt of combine_components that was answered with content
\* ends the call in that same step with the answered document, whether or
\* not the document holds every component; the call returns no document
\* only when every one of its provider requests failed.
C26_MissingComponentsOnlyWarn ==
    /\ [][(stage = "combiner" /\ pc = "loop" /\ calls' = calls + 1 /\ ~allFail')
          => (pc' = "done" /\ result' = "html" /\ html_code'.starts_doctype)]_vars
    /\ []((stage = "combiner" /\ pc = "done" /\ result = "none") => allFail)

\* combine_components returned, from its first attempt, a document that
\* lacks a component
C26_Witness ==
    /\ stage = "combiner"
    /\ pc = "done"
    /\ result = "html"
    /\ calls = 1
    /\ html_code.long
    /\ ~html_code.components_found

\* C27: every document combine_components returns starts with
\* '<!DOCTYPE'.  Of the answers the provider may give, one that holds
\* '<!DOCTYPE' behind other text comes back cut to start there and
\* otherwise as it was, and one that does not hold it comes back with the
\* declaration in front and otherwise as it was.
C27_DocumentStartsWithDoctype ==
    /\ (stage = "combiner" /\ pc = "done" /\ result = "html") =>
          /\ html_code.starts_doctype
          /\ html_code.doctype
          /\ html_code.doctype_ci
          /\ \E d \in HtmlDocs : html_code = EnsureDoctype(d)
    /\ \A d \in HtmlDocs :
          /\ EnsureDoctype(d).starts_doctype
          /\ d.doctype => EnsureDoctype(d) = [d EXCEPT !.starts_doctype = TRUE]
          /\ ~d.doctype =>
                EnsureDoctype(d) = [d EXCEPT !.starts_doctype = TRUE, !.doctype = TRUE,
                                             !.doctype_ci = TRUE]

\* combine_components returned a document without a head tag: the answer
\* had no declaration, and the declaration was put in front of it
C27_Witness ==
    /\ stage = "combiner"
    /\ pc = "done"
    /\ result = "html"
    /\ html_code.starts_doctype
    /\ html_code.html_ci
    /\ ~html_code.head_ci

\* the pools of the process
Pools ==
    [openrouter |-> openrouter_manager, openai |-> openai_manager,
     k_openai |-> _key_manager.openai_manager,
     k_openrouter |-> _key_manager.openrouter_manager]

\* the name under which an observed rotate_key() call names its pool
PoolOf(obs) ==
    IF obs.pool = "_key_manager.openai" THEN "k_openai" ELSE obs.pool

\* C28: a step changes a pool only by a rotate_key() call on that pool: the
\* pool's key list stays, its cursor becomes what the call set, and every
\* other pool is left as it was; a step that only reads a key or only
\* classifies a failure leaves all pools as they were.
C28_OnlyRotateMovesCursor ==
    [][LET before == Pools
           after  == Pools'
       IN  \A p \in DOMAIN before :
              after[p] # before[p] =>
                 /\ last_rotate'.pool # "none"
                 /\ PoolOf(last_rotate') = p
                 /\ last_rotate'.ret
                 /\ after[p].keys = before[p].keys
                 /\ after[p].current_key_index = last_rotate'.after
                 /\ \A q \in DOMAIN before \ {p} : after[q] = before[q]]_vars

\* the flow rotated the text pool in a step that classified a failure,
\* while the cursor of the image pool stood on its second key
C28_Witness ==
    /\ pc = "loop"
    /\ stage \in {"planner", "component", "combiner"}
    /\ rot >= 1
    /\ last_rotate.pool = "openrouter"
    /\ last_rotate.ret
    /\ openrouter_manager.current_key_index = last_rotate.after
    /\ openai_manager.current_key_index = 1

\* C29: while no other request runs, a planner or combiner call over a
\* pool of N > 1 keys whose every request was answered with HTTP 429 has,
\* when it ends, made N requests and N rotations and has failed; the
\* cursor is back on the key the call read when it started, which is the
\* key its first request presented and the key the next call will read.
C29_FullCycleOnRateLimit ==
    LET N == Len(openrouter_manager.keys)
    IN  (/\ pc = "done"
         /\ stage \in {"planner", "combiner"}
         /\ N > 1
         /\ calls >= 1
         /\ all429)
        => /\ calls = N
           /\ rot = N
           /\ result \in {"fallback", "none"}
           /\ get_key(openrouter_manager) = openrouter_key
           /\ get_key(openrouter_manager) = used[1]

\* a combiner call that started with the cursor on the second key ended
\* after HTTP 429 answers only
C29_Witness ==
    /\ pc = "done"
    /\ stage = "combiner"
    /\ Len(openrouter_manager.keys) > 1
    /\ calls = Len(openrouter_manager.keys)
    /\ all429
    /\ rot >= 2
    /\ openrouter_manager.current_key_index = 1

\* C30: a regeneration call is started only behind the main loop, only for
\* Contact or Footer, only for a name of the plan that is not in the
\* component map and that no regeneration call was started for before; no
\* other step adds to the regenerated names; and a regeneration call that
\* hands back no markup leaves the component map as it was.
C30_RegenerationOnlyForMissing ==
    /\ [](regenerated \subseteq {"Contact", "Footer"})
    /\ [][(phase \in {"regen_contact", "regen_footer"} /\ stage = "none"
             /\ stage' = "component")
          => (LET n == ComponentName(phase, all_components_from_plan, comp_idx)
              IN  /\ n \in {"Contact", "Footer"}
                  /\ n \notin regenerated
                  /\ ~Has(components, n)
                  /\ HasNamed(all_components_from_plan, n)
                  /\ comp_idx = Len(all_components_from_plan)
                  /\ Len(attempted) = Len(all_components_from_plan)
                  /\ regenerated' = regenerated \cup {n})]_vars
    /\ [][(regenerated' # regenerated /\ regenerated \subseteq regenerated')
          => (phase \in {"regen_contact", "regen_footer"} /\ stage = "none")]_vars
    /\ [][(phase \in {"regen_contact", "regen_footer"} /\ stage = "component"
             /\ pc = "done" /\ result # "code")
          => (components' = components)]_vars

\* Contact failed in the main loop and again in its regeneration call, and
\* generate_all_components returned the map without it
C30_Witness ==
    /\ phase = "returned"
    /\ returned.has_images
    /\ regenerated = {"Contact"}
    /\ "Contact" \in failed
    /\ ~Has(returned.components, "Contact")
    /\ Has(returned.components, "Footer")

====
